---------------------------- MODULE Spec2Model ----------------------------
(***************************************************************************)
(* A model of the firehose client library (package firehose):              *)
(*   - Message.UnmarshalJSON, the two-pass tagged decode      (SpecDecode) *)
(*   - InitCommand.String, the initiation command serializer     (SpecCmd) *)
(*   - Stream.Init writing command lines to the connection      (SpecInit) *)
(*   - Stream: Init, NextMessage, Close over one connection and one        *)
(*     json.Decoder, with the decode goroutine of every NextMessage call   *)
(*     and the context's cancellation as concurrent processes       (Spec) *)
(*   - the same Stream under the progress the Go runtime gives  (FairSpec) *)
(***************************************************************************)
EXTENDS Integers, Sequences, FiniteSets, TLC

VARIABLES
    \* ---- Stream (Spec) ----
    wire,       \* the JSON values the peer sends, in order (the byte stream)
    conn,       \* Stream.conn: [closed, writeBroken, readDeadline, written]
    decoder,    \* Stream.decoder: [buf, scanp, err]
    pc,         \* the consumer: "idle" between calls, "select" inside NextMessage
    ctx,        \* the context of the running NextMessage call
    call,       \* what held when the last NextMessage call started, and what
                \* the last Init call returned
    gor,        \* gor[i]: the decode goroutine spawned by the i-th NextMessage call
    log,        \* what each NextMessage call returned, in order
    \* ---- Message.UnmarshalJSON (SpecDecode) ----
    data,       \* the JSON object handed to json.Unmarshal
    msg,        \* the Message it is decoded into
    uerr,       \* the error json.Unmarshal returned
    upc,        \* "build" while the object is being written, "done" once decoded
    \* ---- InitCommand.String (SpecCmd) ----
    cmd,        \* the InitCommand
    out,        \* the string String() returned
    cpc         \* "build" while fields are assigned, "done" once serialized

streamVars == <<wire, conn, decoder, pc, ctx, call, gor, log>>
decodeVars == <<data, msg, uerr, upc>>
cmdVars    == <<cmd, out, cpc>>
vars       == <<wire, conn, decoder, pc, ctx, call, gor, log,
                data, msg, uerr, upc, cmd, out, cpc>>

(***************************************************************************)
(* Bounds of the model.                                                    *)
(***************************************************************************)
MaxPairs == 3      \* members of a decoded JSON object
MaxWire  == 2      \* JSON values the peer sends
MaxCalls == 2      \* NextMessage calls of one run
MaxList  == 2      \* elements of AirportFilter, Events and LatLong
MaxWrites == 2     \* Init calls of one run

(***************************************************************************)
(* JSON values and Go values.                                              *)
(*                                                                         *)
(* A JSON object is the sequence of its members <<key, value>> in the      *)
(* order they appear in the text; keys are distinct and spelled as on the  *)
(* wire.  A JSON value is a string, a number or null.  A Go string field   *)
(* holds <<"val", s>>, a pointer field <<"nil", "">> or <<"ptr", s>>.      *)
(***************************************************************************)
JStr(s) == <<"str", s>>
JNum    == <<"num", "7">>
JNull   == <<"null", "">>

Val(s) == <<"val", s>>
Ptr(s) == <<"ptr", s>>
Nil    == <<"nil", "">>

NoErr == <<"nil", "">>

Keys(obj) == {obj[i][1] : i \in 1..Len(obj)}
Has(obj, k) == k \in Keys(obj)
Get(obj, k) == obj[CHOOSE i \in 1..Len(obj) : obj[i][1] = k][2]

\* The zero value of a Go field of the given kind.
Zero(kind) == IF kind = "string" THEN Val("") ELSE Nil

\* struct { Type string `json:"type"` }
StubKinds == [type |-> "string"]

\* type ErrorMessage struct
ErrorMessageKinds == [type |-> "string", error_msg |-> "string"]

\* type PositionMessage struct: the identity, geospatial and temporal fields
\* (plain strings), one optional telemetry string (alt) and one optional
\* integer (nac_p); the other optional fields are of these two kinds.
PositionMessageKinds ==
    [type |-> "string", ident |-> "string", lat |-> "string", lon |-> "string",
     clock |-> "string", id |-> "string", pitr |-> "string",
     alt |-> "*string", nac_p |-> "*int"]

\* encoding/json storing one member into a struct: an unknown key is skipped,
\* null leaves a plain field alone and clears a pointer, a value of the wrong
\* JSON type is an UnmarshalTypeError (the first one is kept, decoding goes
\* on) after the pointer has been allocated.
StoreMember(kinds, st, member) ==
    LET k == member[1]
        v == member[2]
    IN  IF k \notin DOMAIN kinds THEN st
        ELSE LET kind   == kinds[k]
                 isPtr  == kind # "string"
                 wants  == IF kind = "*int" THEN "num" ELSE "str"
                 bad    == [val |-> IF isPtr
                                    THEN [st.val EXCEPT ![k] =
                                            Ptr(IF kind = "*int" THEN "0" ELSE "")]
                                    ELSE st.val,
                            err |-> IF st.err = NoErr
                                    THEN <<"UnmarshalTypeError", k>>
                                    ELSE st.err]
             IN  CASE v[1] = "null" ->
                        IF isPtr THEN [st EXCEPT !.val[k] = Nil] ELSE st
                   [] v[1] = wants ->
                        [st EXCEPT !.val[k] = IF isPtr THEN Ptr(v[2]) ELSE Val(v[2])]
                   [] OTHER -> bad

RECURSIVE StoreMembers(_, _, _)
StoreMembers(kinds, st, obj) ==
    IF obj = <<>> THEN st
    ELSE StoreMembers(kinds, StoreMember(kinds, st, Head(obj)), Tail(obj))

\* json.Unmarshal(data, &v) for a zero struct v with the given fields.
Unmarshal(kinds, obj) ==
    StoreMembers(kinds,
                 [val |-> [k \in DOMAIN kinds |-> Zero(kinds[k])], err |-> NoErr],
                 obj)

(***************************************************************************)
(* type Message struct { Type string; Payload any }                        *)
(***************************************************************************)
NilPayload == [variant |-> "nil", val |-> [k \in {} |-> Nil]]
ZeroMessage == [Type |-> "", Payload |-> NilPayload]

UnmarshalJSONIgnoresUnknown(m, obj) ==
    LET stub == Unmarshal(StubKinds, obj)
    IN  IF stub.err # NoErr
        THEN [m |-> m, err |-> <<"could not determine message type", stub.err[2]>>]
        ELSE LET t  == stub.val["type"][2]
                 m1 == [m EXCEPT !.Type = t]
             IN  CASE t = "error" ->
                        LET p == Unmarshal(ErrorMessageKinds, obj)
                        IN  [m   |-> [m1 EXCEPT !.Payload =
                                        [variant |-> "ErrorMessage", val |-> p.val]],
                             err |-> p.err]
                   [] t = "position" ->
                        LET p == Unmarshal(PositionMessageKinds, obj)
                        IN  [m   |-> [m1 EXCEPT !.Payload =
                                        [variant |-> "PositionMessage", val |-> p.val]],
                             err |-> p.err]
                   [] OTHER -> [m |-> m1, err |-> NoErr]

UnmarshalJSONDropsPayload(m, obj) ==
    LET stub == Unmarshal(StubKinds, obj)
    IN  IF stub.err # NoErr
        THEN [m |-> m, err |-> <<"could not determine message type", stub.err[2]>>]
        ELSE LET t  == stub.val["type"][2]
                 m1 == [m EXCEPT !.Type = t]
             IN  CASE t = "error" ->
                        [m |-> m1, err |-> Unmarshal(ErrorMessageKinds, obj).err]
                   [] t = "position" ->
                        LET p == Unmarshal(PositionMessageKinds, obj)
                        IN  [m   |-> [m1 EXCEPT !.Payload =
                                        [variant |-> "PositionMessage", val |-> p.val]],
                             err |-> p.err]
                   [] OTHER ->
                        [m |-> m1, err |-> <<"unrecognized message type", t>>]

UnmarshalJSONStoresZeroPosition(m, obj) ==
    LET stub == Unmarshal(StubKinds, obj)
    IN  IF stub.err # NoErr
        THEN [m |-> m, err |-> <<"could not determine message type", stub.err[2]>>]
        ELSE LET t  == stub.val["type"][2]
                 m1 == [m EXCEPT !.Type = t]
             IN  CASE t = "error" ->
                        LET p == Unmarshal(ErrorMessageKinds, obj)
                        IN  [m   |-> [m1 EXCEPT !.Payload =
                                        [variant |-> "ErrorMessage", val |-> p.val]],
                             err |-> p.err]
                   [] t = "position" ->
                        [m   |-> [m1 EXCEPT !.Payload =
                                    [variant |-> "PositionMessage",
                                     val |-> Unmarshal(PositionMessageKinds, <<>>).val]],
                         err |-> Unmarshal(PositionMessageKinds, obj).err]
                   [] OTHER ->
                        [m |-> m1, err |-> <<"unrecognized message type", t>>]

UnmarshalJSONSwapsVariants(m, obj) ==
    LET stub == Unmarshal(StubKinds, obj)
    IN  IF stub.err # NoErr
        THEN [m |-> m, err |-> <<"could not determine message type", stub.err[2]>>]
        ELSE LET t  == stub.val["type"][2]
                 m1 == [m EXCEPT !.Type = t]
             IN  CASE t = "error" ->
                        LET p == Unmarshal(PositionMessageKinds, obj)
                        IN  [m   |-> [m1 EXCEPT !.Payload =
                                        [variant |-> "PositionMessage", val |-> p.val]],
                             err |-> p.err]
                   [] t = "position" ->
                        LET p == Unmarshal(ErrorMessageKinds, obj)
                        IN  [m   |-> [m1 EXCEPT !.Payload =
                                        [variant |-> "ErrorMessage", val |-> p.val]],
                             err |-> p.err]
                   [] OTHER ->
                        [m |-> m1, err |-> <<"unrecognized message type", t>>]

\* func (m *Message) UnmarshalJSON(data []byte) error
UnmarshalJSON(m, obj) ==
    LET stub == Unmarshal(StubKinds, obj)
    IN  IF stub.err # NoErr
        THEN [m |-> m, err |-> <<"could not determine message type", stub.err[2]>>]
        ELSE LET t  == stub.val["type"][2]
                 m1 == [m EXCEPT !.Type = t]
             IN  CASE t = "error" ->
                        LET p == Unmarshal(ErrorMessageKinds, obj)
                        IN  [m   |-> [m1 EXCEPT !.Payload =
                                        [variant |-> "ErrorMessage", val |-> p.val]],
                             err |-> p.err]
                   [] t = "position" ->
                        LET p == Unmarshal(PositionMessageKinds, obj)
                        IN  [m   |-> [m1 EXCEPT !.Payload =
                                        [variant |-> "PositionMessage", val |-> p.val]],
                             err |-> p.err]
                   [] OTHER ->
                        [m |-> m1, err |-> <<"unrecognized message type", t>>]

(***************************************************************************)
(* SpecDecode: a JSON object is written member by member, then decoded     *)
(* with json.Unmarshal(data, &msg).                                        *)
(***************************************************************************)
TypeValues == {JStr("error"), JStr("position"), JStr("foo"), JStr(""), JNum, JNull}

MemberValues(k) ==
    CASE k = "type"      -> TypeValues
      [] k = "error_msg" -> {JStr("boom"), JStr(""), JNum}
      [] k = "ident"     -> {JStr("WSN145"), JStr(""), JNum}
      [] k = "alt"       -> {JStr("1550"), JStr(""), JNum, JNull}
      [] k = "nac_p"     -> {JNum, JStr("8")}
      [] OTHER           -> {JStr("9.01767"), JNum}

WireKeys == DOMAIN PositionMessageKinds \cup DOMAIN ErrorMessageKinds

AddMember ==
    /\ upc = "build"
    /\ Len(data) < MaxPairs
    /\ \E k \in WireKeys \ Keys(data) : \E v \in MemberValues(k) :
          data' = Append(data, <<k, v>>)
    /\ UNCHANGED <<msg, uerr, upc>>
    /\ UNCHANGED <<streamVars, cmdVars>>

\* json.Unmarshal(data, &msg): the object is syntactically valid, so the
\* decoder hands its text to Message.UnmarshalJSON.
DoUnmarshal ==
    /\ upc = "build"
    /\ LET r == UnmarshalJSON(msg, data)
       IN  /\ msg' = r.m
           /\ uerr' = r.err
    /\ upc' = "done"
    /\ UNCHANGED data
    /\ UNCHANGED <<streamVars, cmdVars>>

NextDecode ==
    \/ AddMember
    \/ DoUnmarshal


(***************************************************************************)
(* InitCommand.String.                                                     *)
(*                                                                         *)
(* A Go string is the sequence of its pieces (runs of characters): the     *)
(* empty string is <<>>, concatenation is \o.  A float64 is held in        *)
(* millionths, which is what the verb %f prints.                           *)
(***************************************************************************)
Space == <<" ">>
Quote == <<"\"">>

RECURSIVE Join(_, _)
\* strings.Join(elems, sep)
Join(elems, sep) ==
    IF elems = <<>> THEN <<>>
    ELSE IF Len(elems) = 1 THEN elems[1]
    ELSE elems[1] \o sep \o Join(Tail(elems), sep)

Abs(x) == IF x < 0 THEN -x ELSE x
Digit(n, place) == ToString((n \div place) % 10)

\* fmt's verb %f for a float64: sign, integer part, ".", six decimals.
FormatF(x) ==
    LET a == Abs(x)
        f == a % 1000000
    IN  (IF x < 0 THEN <<"-">> ELSE <<>>)
        \o <<ToString(a \div 1000000), ".">>
        \o <<Digit(f, 100000), Digit(f, 10000), Digit(f, 1000),
             Digit(f, 100), Digit(f, 10), Digit(f, 1)>>

\* fmt.Sprintf("\"%s\"", s)
Quoted(s) == Quote \o s \o Quote

\* fmt.Sprintf("\"%f %f %f %f\"", rect.LowLat, rect.LowLon, rect.HiLat, rect.HiLon)
RectFilter(rect) ==
    Quote \o FormatF(rect.LowLat) \o Space \o FormatF(rect.LowLon) \o Space
          \o FormatF(rect.HiLat) \o Space \o FormatF(rect.HiLon) \o Quote

RECURSIVE LatLongParts(_)
\* for _, rect := range i.LatLong { parts = append(parts, "latlong", filter) }
LatLongParts(rects) ==
    IF rects = <<>> THEN <<>>
    ELSE <<<<"latlong">>, RectFilter(Head(rects))>> \o LatLongParts(Tail(rects))

NoRange == [set |-> FALSE, Start |-> <<>>, End |-> <<>>]

PartsPitrBeforeLive(i) ==
       (IF i.PITR # <<>> THEN <<<<"pitr">>, i.PITR>> ELSE <<>>)
    \o (IF i.Live THEN <<<<"live">>>> ELSE <<>>)
    \o (IF i.Range.set THEN <<<<"range">>, i.Range.Start, i.Range.End>> ELSE <<>>)
    \o <<<<"username">>, i.Username>>
    \o <<<<"password">>, i.Password>>
    \o (IF Len(i.AirportFilter) > 0
        THEN <<<<"airport_filter">>, Quoted(Join(i.AirportFilter, Space))>>
        ELSE <<>>)
    \o (IF Len(i.Events) > 0
        THEN <<<<"events">>, Quoted(Join(i.Events, Space))>>
        ELSE <<>>)
    \o LatLongParts(i.LatLong)

PartsOmitsEmptyCredentials(i) ==
       (IF i.Live THEN <<<<"live">>>> ELSE <<>>)
    \o (IF i.PITR # <<>> THEN <<<<"pitr">>, i.PITR>> ELSE <<>>)
    \o (IF i.Range.set THEN <<<<"range">>, i.Range.Start, i.Range.End>> ELSE <<>>)
    \o (IF i.Username # <<>> THEN <<<<"username">>, i.Username>> ELSE <<>>)
    \o (IF i.Password # <<>> THEN <<<<"password">>, i.Password>> ELSE <<>>)
    \o (IF Len(i.AirportFilter) > 0
        THEN <<<<"airport_filter">>, Quoted(Join(i.AirportFilter, Space))>>
        ELSE <<>>)
    \o (IF Len(i.Events) > 0
        THEN <<<<"events">>, Quoted(Join(i.Events, Space))>>
        ELSE <<>>)
    \o LatLongParts(i.LatLong)

PartsMergesRectangles(i) ==
       (IF i.Live THEN <<<<"live">>>> ELSE <<>>)
    \o (IF i.PITR # <<>> THEN <<<<"pitr">>, i.PITR>> ELSE <<>>)
    \o (IF i.Range.set THEN <<<<"range">>, i.Range.Start, i.Range.End>> ELSE <<>>)
    \o <<<<"username">>, i.Username>>
    \o <<<<"password">>, i.Password>>
    \o (IF Len(i.AirportFilter) > 0
        THEN <<<<"airport_filter">>, Quoted(Join(i.AirportFilter, Space))>>
        ELSE <<>>)
    \o (IF Len(i.Events) > 0
        THEN <<<<"events">>, Quoted(Join(i.Events, Space))>>
        ELSE <<>>)
    \o (IF Len(i.LatLong) > 0
        THEN <<<<"latlong">>,
               Quoted(Join([k \in 1..Len(i.LatLong) |->
                              SubSeq(RectFilter(i.LatLong[k]), 2,
                                     Len(RectFilter(i.LatLong[k])) - 1)], Space))>>
        ELSE <<>>)

\* The slice parts that String() builds.
Parts(i) ==
       (IF i.Live THEN <<<<"live">>>> ELSE <<>>)
    \o (IF i.PITR # <<>> THEN <<<<"pitr">>, i.PITR>> ELSE <<>>)
    \o (IF i.Range.set THEN <<<<"range">>, i.Range.Start, i.Range.End>> ELSE <<>>)
    \o <<<<"username">>, i.Username>>
    \o <<<<"password">>, i.Password>>
    \o (IF Len(i.AirportFilter) > 0
        THEN <<<<"airport_filter">>, Quoted(Join(i.AirportFilter, Space))>>
        ELSE <<>>)
    \o (IF Len(i.Events) > 0
        THEN <<<<"events">>, Quoted(Join(i.Events, Space))>>
        ELSE <<>>)
    \o LatLongParts(i.LatLong)

\* func (i *InitCommand) String() string
String(i) == Join(Parts(i), Space)

(***************************************************************************)
(* SpecCmd: the fields of an InitCommand are assigned in any order, then   *)
(* the command is serialized.                                              *)
(***************************************************************************)
ZeroInitCommand ==
    [Live |-> FALSE, PITR |-> <<>>, Range |-> NoRange,
     Password |-> <<>>, Username |-> <<>>,
     AirportFilter |-> <<>>, Events |-> <<>>, LatLong |-> <<>>]

Globs == {<<"KBOS">>, <<"EG??">>}
EventNames == {<<"position">>, <<"flightplan">>}
Rectangles ==
    {[LowLat |-> 1000000, LowLon |-> 2000000, HiLat |-> 3000000, HiLon |-> 4000000],
     [LowLat |-> 9017670, LowLon |-> -79420580, HiLat |-> 0, HiLon |-> -500000]}

SetLive ==
    /\ cpc = "build" /\ ~cmd.Live
    /\ cmd' = [cmd EXCEPT !.Live = TRUE]
    /\ UNCHANGED <<out, cpc>>
    /\ UNCHANGED <<streamVars, decodeVars>>

SetPITR ==
    /\ cpc = "build" /\ cmd.PITR = <<>>
    /\ cmd' = [cmd EXCEPT !.PITR = <<"1">>]
    /\ UNCHANGED <<out, cpc>>
    /\ UNCHANGED <<streamVars, decodeVars>>

SetRange ==
    /\ cpc = "build" /\ ~cmd.Range.set
    /\ cmd' = [cmd EXCEPT !.Range = [set |-> TRUE, Start |-> <<"2">>, End |-> <<"3">>]]
    /\ UNCHANGED <<out, cpc>>
    /\ UNCHANGED <<streamVars, decodeVars>>

SetUsername ==
    /\ cpc = "build" /\ cmd.Username = <<>>
    /\ cmd' = [cmd EXCEPT !.Username = <<"un">>]
    /\ UNCHANGED <<out, cpc>>
    /\ UNCHANGED <<streamVars, decodeVars>>

SetPassword ==
    /\ cpc = "build" /\ cmd.Password = <<>>
    /\ cmd' = [cmd EXCEPT !.Password = <<"pw">>]
    /\ UNCHANGED <<out, cpc>>
    /\ UNCHANGED <<streamVars, decodeVars>>

AddAirportFilter ==
    /\ cpc = "build" /\ Len(cmd.AirportFilter) < MaxList
    /\ \E g \in Globs : cmd' = [cmd EXCEPT !.AirportFilter = Append(@, g)]
    /\ UNCHANGED <<out, cpc>>
    /\ UNCHANGED <<streamVars, decodeVars>>

AddEvent ==
    /\ cpc = "build" /\ Len(cmd.Events) < MaxList
    /\ \E e \in EventNames : cmd' = [cmd EXCEPT !.Events = Append(@, e)]
    /\ UNCHANGED <<out, cpc>>
    /\ UNCHANGED <<streamVars, decodeVars>>

AddLatLong ==
    /\ cpc = "build" /\ Len(cmd.LatLong) < MaxList
    /\ \E r \in Rectangles : cmd' = [cmd EXCEPT !.LatLong = Append(@, r)]
    /\ UNCHANGED <<out, cpc>>
    /\ UNCHANGED <<streamVars, decodeVars>>

DoString ==
    /\ cpc = "build"
    /\ out' = String(cmd)
    /\ cpc' = "done"
    /\ UNCHANGED cmd
    /\ UNCHANGED <<streamVars, decodeVars>>

NextCmd ==
    \/ SetLive
    \/ SetPITR
    \/ SetRange
    \/ SetUsername
    \/ SetPassword
    \/ AddAirportFilter
    \/ AddEvent
    \/ AddLatLong
    \/ DoString


(***************************************************************************)
(* Stream: one net.Conn and one json.Decoder reading from it.              *)
(*                                                                         *)
(* conn.readDeadline is "none", "future" or "past"; decoder.buf counts the *)
(* values of the wire read into the decoder's buffer, decoder.scanp those  *)
(* already decoded, decoder.err is the decoder's sticky read error.        *)
(* conn.written is the text written to the connection so far, and          *)
(* conn.writeBroken holds once the peer no longer takes what is written.   *)
(***************************************************************************)
ObjError    == <<<<"type", JStr("error")>>, <<"error_msg", JStr("boom")>>>>
ObjPosition == <<<<"pitr", JStr("1596067223")>>, <<"type", JStr("position")>>,
                 <<"ident", JStr("WSN145")>>>>
ObjUnknown  == <<<<"type", JStr("flightplan")>>, <<"ident", JStr("WSN145")>>>>
\* What the peer sends: two different well-formed messages and one with a
\* discriminant this version does not know.
WireValues == {ObjError, ObjPosition, ObjUnknown}

ErrClosed  == <<"use of closed network connection", "">>
ErrTimeout == <<"i/o timeout", "">>
ErrBrokenPipe == <<"write: broken pipe", "">>

\* Errors of the transport, as opposed to errors of one object's decode.
TransportErrors == {ErrClosed, ErrTimeout}

\* NewStream(conn): a fresh connection and a decoder with an empty buffer.
NewStream ==
    [conn    |-> [closed |-> FALSE, writeBroken |-> FALSE, readDeadline |-> "none",
                  written |-> <<>>],
     decoder |-> [buf |-> 0, scanp |-> 0, err |-> NoErr]]

IdleCtx  == [kind |-> "background", err |-> "nil"]
IdleCall == [closedAtStart |-> FALSE, expiredAtStart |-> FALSE,
             inits |-> 0, initCommand |-> <<>>,
             initClosed |-> FALSE, initErr |-> NoErr]

\* The contexts a caller can pass, with the state of their deadline:
\* context.Background(), a WithCancel context (possibly cancelled already)
\* and a WithDeadline context (possibly cancelled or expired already).
Contexts ==
    {<<[kind |-> "background", err |-> "nil"], "none">>,
     <<[kind |-> "cancel", err |-> "nil"], "none">>,
     <<[kind |-> "cancel", err |-> "Canceled"], "none">>,
     <<[kind |-> "deadline", err |-> "nil"], "future">>,
     <<[kind |-> "deadline", err |-> "Canceled"], "future">>,
     <<[kind |-> "deadline", err |-> "DeadlineExceeded"], "past">>}

\* ctx.Err() as an error value.
CtxErr(cx) == <<"context", cx.err>>

\* A goroutine that has not run yet, and one that is gone.
NewGoroutine  == [pc |-> "decode", idx |-> 0, m |-> ZeroMessage, err |-> NoErr]
GoroutineStillSending == [pc |-> "send", idx |-> 0, m |-> ZeroMessage, err |-> NoErr]
DoneGoroutine == [pc |-> "done", idx |-> 0, m |-> ZeroMessage, err |-> NoErr]

DecodeValueKeepsError(dec, m) ==
    LET r == UnmarshalJSON(m, wire[dec.scanp + 1])
    IN  [dec |-> [dec EXCEPT !.scanp = @ + 1, !.err = r.err],
         idx |-> dec.scanp + 1, m |-> r.m, err |-> r.err]

DecodeValueStaysPut(dec, m) ==
    LET r == UnmarshalJSON(m, wire[dec.scanp + 1])
    IN  [dec |-> IF r.err = NoErr THEN [dec EXCEPT !.scanp = @ + 1] ELSE dec,
         idx |-> dec.scanp + 1, m |-> r.m, err |-> r.err]

\* Decoder.Decode(&msg) with a complete value in the buffer: the value is
\* taken off the buffer, then unmarshalled; the unmarshal error is returned
\* and not kept in the decoder.
DecodeValue(dec, m) ==
    LET r == UnmarshalJSON(m, wire[dec.scanp + 1])
    IN  [dec |-> [dec EXCEPT !.scanp = @ + 1],
         idx |-> dec.scanp + 1, m |-> r.m, err |-> r.err]

\* conn.Close(): [conn, err]; closing a closed connection is an error.
ConnClose(c) ==
    [conn |-> [c EXCEPT !.closed = TRUE],
     err  |-> IF c.closed THEN ErrClosed ELSE NoErr]

\* What a NextMessage call returned: the branch it returned through, the
\* message (isNil when the pointer is nil) and the error, the index on the
\* wire of the object it decoded, and what c.Close() returned to it when it
\* called it.
CancelBranchLeavesOpen(c, cx) ==
    [conn |-> c, ret |-> [branch |-> "cancel", isNil |-> TRUE, m |-> ZeroMessage,
                          err |-> CtxErr(cx), idx |-> 0, closeErr |-> NoErr]]

\* case <-ctx.Done(): c.Close(); return nil, ctx.Err()
CancelBranch(c, cx) ==
    [conn |-> ConnClose(c).conn,
     ret  |-> [branch |-> "cancel", isNil |-> TRUE, m |-> ZeroMessage,
               err |-> CtxErr(cx), idx |-> 0, closeErr |-> ConnClose(c).err]]

DecodeBranchDropsError(g) ==
    [branch |-> "decode", isNil |-> FALSE, m |-> g.m, err |-> NoErr, idx |-> g.idx,
     closeErr |-> NoErr]

DecodeBranchNilOnError(g) ==
    [branch |-> "decode", isNil |-> g.err # NoErr, m |-> g.m, err |-> g.err,
     idx |-> g.idx, closeErr |-> NoErr]

\* case err := <-errc: return &msg, err
DecodeBranch(g) ==
    [branch |-> "decode", isNil |-> FALSE, m |-> g.m, err |-> g.err, idx |-> g.idx,
     closeErr |-> NoErr]

Wires == [1..MaxWire -> WireValues]

\* The command of TestInitCommand without its filters, and what the callers
\* of Init pass: the empty string, the empty command and that command.
LiveCommand ==
    [ZeroInitCommand EXCEPT !.Live = TRUE, !.Username = <<"un">>, !.Password = <<"pw">>]
Commands == {<<>>, String(ZeroInitCommand), String(LiveCommand)}

\* conn.Write(p): the outcomes [conn, err].  A closed connection takes
\* nothing; one whose write side is broken takes a part of p, possibly
\* none, and fails; otherwise all of p is written.
ConnWrite(c, p) ==
    IF c.closed THEN {[conn |-> c, err |-> ErrClosed]}
    ELSE IF c.writeBroken
    THEN {[conn |-> [c EXCEPT !.written = @ \o SubSeq(p, 1, n)],
           err  |-> ErrBrokenPipe] : n \in 0..(Len(p) - 1)}
    ELSE {[conn |-> [c EXCEPT !.written = @ \o p], err |-> NoErr]}

FprintlnNoNewline(command) == command

\* The bytes fmt.Fprintln(w, command) hands to w.Write in one call: the
\* operand and a newline.
Fprintln(command) == command \o <<"\n">>

\* func (c *Stream) Init(command string) error
\*     _, err := fmt.Fprintln(c.conn, command); return err
StreamInit(command) ==
    /\ pc = "idle"
    /\ call.inits < MaxWrites
    /\ \E w \in ConnWrite(conn, Fprintln(command)) :
          /\ conn' = w.conn
          /\ call' = [call EXCEPT !.inits = @ + 1, !.initCommand = command,
                                  !.initErr = w.err, !.initClosed = conn.closed]
    /\ UNCHANGED <<wire, decoder, pc, ctx, gor, log>>
    /\ UNCHANGED <<decodeVars, cmdVars>>

\* The peer stops taking what is written (it has gone away): from now on
\* writes to the connection fail.
WriteSideBreaks ==
    /\ pc = "idle"
    /\ ~conn.closed /\ ~conn.writeBroken
    /\ conn' = [conn EXCEPT !.writeBroken = TRUE]
    /\ UNCHANGED <<wire, decoder, pc, ctx, call, gor, log>>
    /\ UNCHANGED <<decodeVars, cmdVars>>


\* The goroutine of the running NextMessage call.
Cur == Len(gor)

SetReadDeadlineIgnored(c, d) == c

SetReadDeadlineKeepsEarlier(c, d) ==
    IF c.readDeadline = "none" THEN [c EXCEPT !.readDeadline = d] ELSE c

\* c.conn.SetReadDeadline(deadline) on an open connection.
SetReadDeadline(c, d) == [c EXCEPT !.readDeadline = d]

\* NextMessage, lines 346-351: the context has a deadline and the connection
\* refuses it (it is closed); no goroutine is started.
NextMessageDeadlineFails ==
    /\ pc = "idle"
    /\ Len(log) < MaxCalls
    /\ conn.closed
    /\ \E cx \in Contexts :
         /\ cx[1].kind = "deadline"
         /\ call' = [call EXCEPT !.closedAtStart = conn.closed,
                                 !.expiredAtStart = (cx[1].err # "nil")]
    /\ log' = Append(log, [branch |-> "deadline", isNil |-> TRUE, m |-> ZeroMessage,
                           err |-> <<"could not set read deadline", ErrClosed[1]>>,
                           idx |-> 0, closeErr |-> NoErr])
    /\ UNCHANGED <<wire, conn, decoder, pc, ctx, gor>>
    /\ UNCHANGED <<decodeVars, cmdVars>>

\* NextMessage, lines 346-357: the read deadline is set when the context has
\* one, the decode goroutine is started, and the caller waits in the select.
NextMessageStart ==
    /\ pc = "idle"
    /\ Len(log) < MaxCalls
    /\ \E cx \in Contexts :
         /\ cx[1].kind = "deadline" => ~conn.closed
         /\ ctx' = cx[1]
         /\ conn' = IF cx[1].kind = "deadline"
                    THEN SetReadDeadline(conn, cx[2])
                    ELSE conn
         /\ call' = [call EXCEPT !.closedAtStart = conn.closed,
                                 !.expiredAtStart = (cx[1].err # "nil")]
    /\ gor' = Append(gor, NewGoroutine)
    /\ pc' = "select"
    /\ UNCHANGED <<wire, decoder, log>>
    /\ UNCHANGED <<decodeVars, cmdVars>>

\* The goroutine calls c.decoder.Decode(&msg): a sticky error is returned at
\* once, a buffered value is decoded, and otherwise the decoder reads from
\* the connection.  The goroutine of a call that returned through the
\* cancellation branch keeps running, so several goroutines can be inside
\* Decode at once; their steps interleave at the scan of the buffer and at
\* the read.
GoDecode(i) ==
    /\ gor[i].pc = "decode"
    /\ IF decoder.err # NoErr
       THEN /\ gor' = [gor EXCEPT ![i].pc = "send", ![i].err = decoder.err]
            /\ UNCHANGED decoder
       ELSE IF decoder.scanp < decoder.buf
       THEN LET r == DecodeValue(decoder, gor[i].m)
            IN  /\ decoder' = r.dec
                /\ gor' = [gor EXCEPT ![i] =
                             [pc |-> "send", idx |-> r.idx, m |-> r.m, err |-> r.err]]
       ELSE /\ gor' = [gor EXCEPT ![i].pc = "read"]
            /\ UNCHANGED decoder
    /\ UNCHANGED <<wire, conn, pc, ctx, call, log>>
    /\ UNCHANGED <<decodeVars, cmdVars>>

\* conn.Read returns bytes: the values the peer has sent by now.
GoReadData(i) ==
    /\ gor[i].pc = "read"
    /\ ~conn.closed
    /\ conn.readDeadline # "past"
    /\ \E n \in (decoder.buf + 1)..Len(wire) :
          decoder' = [decoder EXCEPT !.buf = n]
    /\ gor' = [gor EXCEPT ![i].pc = "decode"]
    /\ UNCHANGED <<wire, conn, pc, ctx, call, log>>
    /\ UNCHANGED <<decodeVars, cmdVars>>

\* conn.Read fails: the connection is closed or the read deadline has
\* passed.  The decoder keeps the error and Decode returns it.
GoReadFails(i) ==
    /\ gor[i].pc = "read"
    /\ \E e \in TransportErrors :
         /\ e = ErrClosed => conn.closed
         /\ e = ErrTimeout => (~conn.closed /\ conn.readDeadline = "past")
         /\ decoder' = [decoder EXCEPT !.err = e]
         /\ gor' = [gor EXCEPT ![i].pc = "send", ![i].err = e]
    /\ UNCHANGED <<wire, conn, pc, ctx, call, log>>
    /\ UNCHANGED <<decodeVars, cmdVars>>

\* select, case <-ctx.Done()
SelectDone ==
    /\ pc = "select"
    /\ ctx.err # "nil"
    /\ LET r == CancelBranch(conn, ctx)
       IN  /\ conn' = r.conn
           /\ log' = Append(log, r.ret)
    /\ pc' = "idle"
    /\ ctx' = IdleCtx
    /\ UNCHANGED <<wire, decoder, call, gor>>
    /\ UNCHANGED <<decodeVars, cmdVars>>

\* select, case err := <-errc: the goroutine's send and the caller's receive
\* meet, the goroutine ends.
SelectErrc ==
    /\ pc = "select"
    /\ gor[Cur].pc = "send"
    /\ log' = Append(log, DecodeBranch(gor[Cur]))
    /\ gor' = [gor EXCEPT ![Cur] = DoneGoroutine]
    /\ pc' = "idle"
    /\ ctx' = IdleCtx
    /\ UNCHANGED <<wire, conn, decoder, call>>
    /\ UNCHANGED <<decodeVars, cmdVars>>

\* The owner of the context cancels it.
Cancel ==
    /\ pc = "select"
    /\ ctx.kind \in {"cancel", "deadline"}
    /\ ctx.err = "nil"
    /\ ctx' = [ctx EXCEPT !.err = "Canceled"]
    /\ UNCHANGED <<wire, conn, decoder, pc, call, gor, log>>
    /\ UNCHANGED <<decodeVars, cmdVars>>

\* The read deadline of the connection passes; it is the deadline of the
\* running call's context when that context has one.
TimePasses ==
    /\ conn.readDeadline = "future"
    /\ conn' = [conn EXCEPT !.readDeadline = "past"]
    /\ ctx' = IF pc = "select" /\ ctx.kind = "deadline" /\ ctx.err = "nil"
              THEN [ctx EXCEPT !.err = "DeadlineExceeded"]
              ELSE ctx
    /\ UNCHANGED <<wire, decoder, pc, call, gor, log>>
    /\ UNCHANGED <<decodeVars, cmdVars>>

\* func (c *Stream) Close() error, on a Stream that is open.
Close ==
    /\ pc = "idle"
    /\ ~conn.closed
    /\ conn' = ConnClose(conn).conn
    /\ UNCHANGED <<wire, decoder, pc, ctx, call, gor, log>>
    /\ UNCHANGED <<decodeVars, cmdVars>>

Init ==
    /\ wire \in Wires
    /\ conn = NewStream.conn
    /\ decoder = NewStream.decoder
    /\ pc = "idle"
    /\ ctx = IdleCtx
    /\ call = IdleCall
    /\ gor = <<>>
    /\ log = <<>>
    /\ data = <<>> /\ msg = ZeroMessage /\ uerr = NoErr /\ upc = "idle"
    /\ cmd = ZeroInitCommand /\ out = <<>> /\ cpc = "idle"

Next ==
    \/ StreamInit(String(LiveCommand))
    \/ NextMessageDeadlineFails
    \/ NextMessageStart
    \/ \E i \in 1..Len(gor) : GoDecode(i)
    \/ \E i \in 1..Len(gor) : GoReadData(i)
    \/ \E i \in 1..Len(gor) : GoReadFails(i)
    \/ SelectDone
    \/ SelectErrc
    \/ Cancel
    \/ TimePasses
    \/ Close

Spec == Init /\ [][Next]_vars

(***************************************************************************)
(* FairSpec: Spec with the progress the Go runtime gives.  A goroutine     *)
(* that can run does run; a read on a closed connection or past the read   *)
(* deadline returns; a select with a ready case proceeds; a deadline that  *)
(* lies in the future passes.  Nothing makes the peer send, the owner of   *)
(* a context cancel it, or the consumer call again.  The consumer calls    *)
(* NextMessage and Close only, and the peer sends messages of one kind.    *)
(***************************************************************************)
FairWires ==
    {[i \in 1..MaxWire |-> ObjPosition], [i \in 1..MaxWire |-> ObjUnknown]}

InitFair ==
    /\ wire \in FairWires
    /\ conn = NewStream.conn
    /\ decoder = NewStream.decoder
    /\ pc = "idle"
    /\ ctx = IdleCtx
    /\ call = IdleCall
    /\ gor = <<>>
    /\ log = <<>>
    /\ data = <<>> /\ msg = ZeroMessage /\ uerr = NoErr /\ upc = "idle"
    /\ cmd = ZeroInitCommand /\ out = <<>> /\ cpc = "idle"

NextFair ==
    \/ NextMessageDeadlineFails
    \/ NextMessageStart
    \/ \E i \in 1..Len(gor) : GoDecode(i)
    \/ \E i \in 1..Len(gor) : GoReadData(i)
    \/ \E i \in 1..Len(gor) : GoReadFails(i)
    \/ SelectDone
    \/ SelectErrc
    \/ Cancel
    \/ TimePasses
    \/ Close

Fairness ==
    /\ \A i \in 1..MaxCalls :
          /\ WF_vars(i <= Len(gor) /\ GoDecode(i))
          /\ WF_vars(i <= Len(gor) /\ GoReadFails(i))
    /\ WF_vars(SelectDone \/ SelectErrc)
    /\ WF_vars(TimePasses)

FairSpec == InitFair /\ [][NextFair]_vars /\ Fairness


InitDecode ==
    /\ data = <<>> /\ msg = ZeroMessage /\ uerr = NoErr /\ upc = "build"
    /\ wire = <<>> /\ conn = NewStream.conn /\ decoder = NewStream.decoder
    /\ pc = "off" /\ ctx = IdleCtx /\ call = IdleCall /\ gor = <<>> /\ log = <<>>
    /\ cmd = ZeroInitCommand /\ out = <<>> /\ cpc = "idle"

SpecDecode == InitDecode /\ [][NextDecode]_vars

InitCmd ==
    /\ cmd = ZeroInitCommand /\ out = <<>> /\ cpc = "build"
    /\ wire = <<>> /\ conn = NewStream.conn /\ decoder = NewStream.decoder
    /\ pc = "off" /\ ctx = IdleCtx /\ call = IdleCall /\ gor = <<>> /\ log = <<>>
    /\ data = <<>> /\ msg = ZeroMessage /\ uerr = NoErr /\ upc = "idle"

SpecCmd == InitCmd /\ [][NextCmd]_vars

(***************************************************************************)
(* SpecInit: Init is called, with any of the commands and any number of    *)
(* times, on a Stream whose decoder has read some of the wire and decoded  *)
(* a part of what it read, while the connection can break or be closed.    *)
(***************************************************************************)
InitInit ==
    /\ wire \in Wires
    /\ conn = NewStream.conn
    /\ \E b \in 0..MaxWire : \E p \in 0..b :
          decoder = [NewStream.decoder EXCEPT !.buf = b, !.scanp = p]
    /\ pc = "idle" /\ ctx = IdleCtx /\ call = IdleCall /\ gor = <<>> /\ log = <<>>
    /\ data = <<>> /\ msg = ZeroMessage /\ uerr = NoErr /\ upc = "idle"
    /\ cmd = ZeroInitCommand /\ out = <<>> /\ cpc = "idle"

NextInit ==
    \/ \E command \in Commands : StreamInit(command)
    \/ WriteSideBreaks
    \/ Close

SpecInit == InitInit /\ [][NextInit]_vars


(***************************************************************************)
(* Properties of Stream.NextMessage.                                       *)
(***************************************************************************)
Last(q) == q[Len(q)]

\* A step in which a NextMessage call returns.
Returns == Len(log') = Len(log) + 1

\* No NextMessage call among the first n has taken the cancellation branch.
NoCancelUpTo(n) == \A j \in 1..n : log[j].branch # "cancel"

\* Errors of decoding one complete object, as opposed to transport errors.
ObjectErrors ==
    {"unrecognized message type", "could not determine message type",
     "UnmarshalTypeError"}

\* C1: when the select of a NextMessage call takes the case <-ctx.Done(),
\* the call closes the connection before returning and returns a nil
\* message together with exactly ctx.Err().
C1_CancelClosesAndReturnsCtxErr ==
    [][(Returns /\ Last(log').branch = "cancel") =>
          /\ pc = "select"
          /\ ctx.err # "nil"
          /\ conn'.closed
          /\ Last(log').isNil
          /\ Last(log').err = <<"context", ctx.err>>]_vars

\* A caller-initiated cancel was observed by the select of a call made on
\* an open connection: the call returned context.Canceled.
C1_Witness ==
    /\ pc = "idle"
    /\ Len(log) > 0
    /\ Last(log).branch = "cancel"
    /\ Last(log).err = <<"context", "Canceled">>
    /\ ~call.closedAtStart

\* C2: a NextMessage call that has started its decode goroutine returns
\* exactly one of the two racing outcomes: the goroutine's decode result
\* (message and error as the decoder produced them), or nil and the
\* context's error; leaving the select always returns one of them.
C2_ExactlyOneOutcome ==
    [][/\ (pc = "select" /\ pc' # "select") => Returns
       /\ (pc = "select" /\ Returns) =>
            LET r == Last(log')
                g == gor[Len(gor)]
            IN  \/ /\ r.branch = "decode"
                   /\ g.pc = "send"
                   /\ ~r.isNil
                   /\ r.m = g.m
                   /\ r.err = g.err
                   /\ r.idx > 0 => <<r.m, r.err>> =
                        LET u == UnmarshalJSON(ZeroMessage, wire[r.idx])
                        IN  <<u.m, u.err>>
                \/ /\ r.branch = "cancel"
                   /\ ctx.err # "nil"
                   /\ r.isNil
                   /\ r.m = ZeroMessage
                   /\ r.idx = 0
                   /\ r.err = <<"context", ctx.err>>]_vars

\* Both outcomes were ready (the goroutine held a decoded object, the
\* context was done) and the call returned the cancellation alone.
C2_Witness ==
    /\ pc = "idle"
    /\ Len(log) > 0
    /\ Last(log).branch = "cancel"
    /\ gor[Len(gor)].pc = "send"
    /\ gor[Len(gor)].idx > 0
    /\ gor[Len(gor)].err = NoErr

\* A well-formed object of a known type: its type member is the string
\* "error" or "position" and every member that is a field of that variant
\* has the JSON type of the field (or is null).
WellFormedKnown(obj) ==
    /\ Has(obj, "type")
    /\ Get(obj, "type") \in {JStr("error"), JStr("position")}
    /\ LET kinds == IF Get(obj, "type") = JStr("error")
                    THEN ErrorMessageKinds ELSE PositionMessageKinds
       IN  \A i \in 1..Len(obj) :
              obj[i][1] \in DOMAIN kinds =>
                 obj[i][2][1] \in {"null", IF kinds[obj[i][1]] = "*int"
                                           THEN "num" ELSE "str"}

\* The indices, in order, of the well-formed known-type objects among the
\* first n values of the wire.
RECURSIVE GoodIndices(_)
GoodIndices(n) ==
    IF n = 0 THEN <<>>
    ELSE IF WellFormedKnown(wire[n]) THEN Append(GoodIndices(n - 1), n)
    ELSE GoodIndices(n - 1)

IsSuccess(r) == r.err = NoErr
IsObject(r) == r.idx > 0
Successes == SelectSeq(log, IsSuccess)
ObjectReturns == SelectSeq(log, IsObject)

\* C3: with a single sequential consumer and no cancellation, every call
\* that returns an object's decode consumes exactly the next object, and
\* the successful calls return, in order and without duplication or
\* omission, the well-formed known-type objects consumed so far.
C3_PassThrough ==
    (pc = "idle" /\ NoCancelUpTo(Len(log))) =>
        /\ Len(ObjectReturns) = decoder.scanp
        /\ \A k \in 1..Len(ObjectReturns) : ObjectReturns[k].idx = k
        /\ Len(Successes) = Len(GoodIndices(decoder.scanp))
        /\ \A k \in 1..Len(Successes) :
              /\ Successes[k].idx = GoodIndices(decoder.scanp)[k]
              /\ ~Successes[k].isNil
              /\ Successes[k].m.Type = Get(wire[Successes[k].idx], "type")[2]
              /\ Successes[k].m = UnmarshalJSON(ZeroMessage, wire[Successes[k].idx]).m

\* Two different messages were delivered around an object that failed to
\* decode or directly one after the other.
C3_Witness ==
    /\ pc = "idle"
    /\ NoCancelUpTo(Len(log))
    /\ Len(Successes) = 2
    /\ Successes[1].m # Successes[2].m

\* C4: after a NextMessage call has failed on a syntactically valid object
\* (unrecognized discriminant, or a field of unexpected type), exactly that
\* object has been consumed and the decoder is usable; the next call, unless
\* the transport fails it, returns the decode of the object that follows.
\* (Calls that follow a cancellation-triggered teardown are not covered.)
C4_ObjectFailureKeepsPosition ==
    \A i \in 1..Len(log) :
       (/\ NoCancelUpTo(i)
        /\ log[i].branch = "decode"
        /\ log[i].err[1] \in ObjectErrors) =>
          /\ log[i].idx > 0
          /\ ~WellFormedKnown(wire[log[i].idx])
          /\ (i = Len(log) /\ pc = "idle") =>
                (decoder.scanp = log[i].idx /\ decoder.err = NoErr)
          /\ (i < Len(log) /\ log[i + 1].branch = "decode") =>
                \/ log[i + 1].err \in TransportErrors /\ log[i + 1].idx = 0
                \/ /\ log[i + 1].idx = log[i].idx + 1
                   /\ log[i + 1].m = UnmarshalJSON(ZeroMessage, wire[log[i].idx + 1]).m
                   /\ log[i + 1].err = UnmarshalJSON(ZeroMessage, wire[log[i].idx + 1]).err

\* A call failed on an unrecognized discriminant and the next call returned
\* the following object.
C4_Witness ==
    /\ Len(log) = 2
    /\ log[1].err[1] = "unrecognized message type"
    /\ log[2].err = NoErr
    /\ log[2].idx = log[1].idx + 1

\* C5 (as stated): once the connection is closed, every later Init returns
\* an error and every later NextMessage returns an error and delivers no
\* message.
C5_ClosedIsTerminal ==
    /\ (pc = "idle" /\ Len(log) > 0 /\ call.closedAtStart) =>
          (Last(log).err # NoErr /\ Last(log).idx = 0)
    /\ call.initClosed => call.initErr # NoErr

\* C6 (as stated): a NextMessage call whose context is already done when
\* the call is made (here: on an open connection) returns ctx.Err() and no
\* message, never a message and never another error.
C6_ExpiredReturnsCancellation ==
    (pc = "idle" /\ Len(log) > 0 /\ call.expiredAtStart /\ ~call.closedAtStart) =>
        /\ Last(log).isNil
        /\ Last(log).err \in {<<"context", "Canceled">>,
                              <<"context", "DeadlineExceeded">>}

(***************************************************************************)
(* Properties of Message.UnmarshalJSON (SpecDecode).                       *)
(***************************************************************************)
Decoded == upc = "done"

HasString(obj, k) == Has(obj, k) /\ Get(obj, k)[1] = "str"

\* C7: an object whose type member is a string other than "error" and
\* "position" fails to decode with the unrecognized-type error carrying
\* that string, and no payload is produced.
C7_UnknownTypeFails ==
    (/\ Decoded
     /\ HasString(data, "type")
     /\ Get(data, "type")[2] \notin {"error", "position"}) =>
         /\ uerr = <<"unrecognized message type", Get(data, "type")[2]>>
         /\ msg.Payload = NilPayload
         /\ msg.Payload.variant \notin {"ErrorMessage", "PositionMessage"}

C7_Witness ==
    /\ Decoded
    /\ HasString(data, "type")
    /\ Get(data, "type") = JStr("foo")
    /\ Has(data, "error_msg")
    /\ uerr = <<"unrecognized message type", "foo">>

\* C8: an object with type "error" and a string error_msg e decodes without
\* error into Message.Type = "error" and an ErrorMessage payload with Type
\* "error" and ErrorMessage e.
C8_ErrorDecodes ==
    (/\ Decoded
     /\ Has(data, "type") /\ Get(data, "type") = JStr("error")
     /\ HasString(data, "error_msg")) =>
         /\ uerr = NoErr
         /\ msg.Type = "error"
         /\ msg.Payload.variant = "ErrorMessage"
         /\ msg.Payload.val["type"] = Val("error")
         /\ msg.Payload.val["error_msg"] = Val(Get(data, "error_msg")[2])

C8_Witness ==
    /\ Decoded
    /\ Len(data) = 3
    /\ data[Len(data)] = <<"type", JStr("error")>>
    /\ Has(data, "error_msg") /\ Get(data, "error_msg") = JStr("boom")
    /\ msg.Payload.variant = "ErrorMessage"
    /\ msg.Payload.val["error_msg"] = Val("boom")

\* The identity, geospatial and temporal fields of a position report.
PositionStringKeys == {"ident", "id", "lat", "lon", "clock", "pitr"}

\* Every member that is a field of PositionMessage has the JSON type of
\* the field.
PositionTyped(obj) ==
    \A i \in 1..Len(obj) :
       obj[i][1] \in DOMAIN PositionMessageKinds =>
          obj[i][2][1] = (IF PositionMessageKinds[obj[i][1]] = "*int"
                          THEN "num" ELSE "str")

\* C9: an object with type "position" whose present fields have the
\* expected wire types decodes without error into Message.Type = "position"
\* and a PositionMessage payload with Type "position" whose ident, id, lat,
\* lon, clock and pitr are the values of the object, wherever the members
\* stand in the object.
C9_PositionDecodes ==
    (/\ Decoded
     /\ Has(data, "type") /\ Get(data, "type") = JStr("position")
     /\ PositionTyped(data)) =>
         /\ uerr = NoErr
         /\ msg.Type = "position"
         /\ msg.Payload.variant = "PositionMessage"
         /\ msg.Payload.val["type"] = Val("position")
         /\ \A k \in PositionStringKeys :
               Has(data, k) => msg.Payload.val[k] = Val(Get(data, k)[2])

\* A position report with the type member last, after two identity or
\* geospatial members.
C9_Witness ==
    /\ Decoded
    /\ Len(data) = 3
    /\ data[3] = <<"type", JStr("position")>>
    /\ data[1][1] \in PositionStringKeys /\ data[1][2][1] = "str"
    /\ data[2][1] \in PositionStringKeys /\ data[2][2][1] = "str"
    /\ uerr = NoErr
    /\ msg.Payload.val[data[1][1]] = Val(data[1][2][2])

(***************************************************************************)
(* Properties of InitCommand.String (SpecCmd).                             *)
(***************************************************************************)
Serialized == cpc = "done"

Occurrences(a) == {i \in 1..Len(out) : out[i] = a}
Present(a) == Occurrences(a) # {}

\* The directives in the order of the grammar.
Directives ==
    <<"live", "pitr", "range", "username", "password", "airport_filter",
      "events", "latlong">>

\* out[i..] starts with the pieces of s.
StartsAt(i, s) ==
    /\ i + Len(s) - 1 <= Len(out)
    /\ \A j \in 1..Len(s) : out[i + j - 1] = s[j]

\* The spaces of out that are not inside a quoted argument: those with an
\* even number of quotes before them.
SpacesOutsideQuotes ==
    {i \in Occurrences(" ") :
        Cardinality({j \in Occurrences("\"") : j < i}) % 2 = 0}

\* The number of tokens the grammar asks for.
TokenCount ==
      (IF cmd.Live THEN 1 ELSE 0) + (IF cmd.PITR # <<>> THEN 2 ELSE 0)
    + (IF cmd.Range.set THEN 3 ELSE 0) + 4
    + (IF Len(cmd.AirportFilter) > 0 THEN 2 ELSE 0)
    + (IF Len(cmd.Events) > 0 THEN 2 ELSE 0)
    + 2 * Len(cmd.LatLong)

\* C10: String() emits the directives in the fixed order live, pitr, range,
\* username, password, airport_filter, events, latlong; each optional
\* directive is present iff its own field is set, whatever the other fields
\* hold; the tokens are separated by single spaces and no newline is
\* appended.
C10_FixedOrderAndPresence ==
    Serialized =>
        /\ Present("live") <=> cmd.Live
        /\ Present("pitr") <=> cmd.PITR # <<>>
        /\ Present("range") <=> cmd.Range.set
        /\ Present("username") /\ Present("password")
        /\ Present("airport_filter") <=> Len(cmd.AirportFilter) > 0
        /\ Present("events") <=> Len(cmd.Events) > 0
        /\ Present("latlong") <=> Len(cmd.LatLong) > 0
        /\ \A a, b \in 1..Len(Directives) :
              a < b => \A i \in Occurrences(Directives[a]) :
                          \A j \in Occurrences(Directives[b]) : i < j
        /\ \A i \in Occurrences("pitr") : StartsAt(i + 1, Space \o cmd.PITR)
        /\ \A i \in Occurrences("range") :
              StartsAt(i + 1, Space \o cmd.Range.Start \o Space \o cmd.Range.End)
        /\ ~Present("\n")
        /\ out[1] # " "
        /\ Cardinality(SpacesOutsideQuotes) = TokenCount - 1
        /\ \A i \in 1..(Len(out) - 1) :
              (out[i] = " " /\ out[i + 1] = " ") =>
                  (cmd.Username = <<>> \/ cmd.Password = <<>>)
        /\ (cmd = [ZeroInitCommand EXCEPT
                     !.Live = TRUE, !.Username = <<"un">>, !.Password = <<"pw">>,
                     !.Events = <<<<"position">>>>,
                     !.LatLong = <<[LowLat |-> 1000000, LowLon |-> 2000000,
                                    HiLat |-> 3000000, HiLon |-> 4000000]>>]) =>
              out = <<"live", " ", "username", " ", "un", " ", "password", " ",
                      "pw", " ", "events", " ", "\"", "position", "\"", " ",
                      "latlong", " ", "\"", "1", ".", "0", "0", "0", "0", "0", "0",
                      " ", "2", ".", "0", "0", "0", "0", "0", "0",
                      " ", "3", ".", "0", "0", "0", "0", "0", "0",
                      " ", "4", ".", "0", "0", "0", "0", "0", "0", "\"">>

\* live, pitr and range are all set, with a filter and a rectangle, and all
\* three directives were emitted.
C10_Witness ==
    /\ Serialized
    /\ cmd.Live /\ cmd.PITR # <<>> /\ cmd.Range.set
    /\ Len(cmd.AirportFilter) = 2 /\ Len(cmd.LatLong) = 1
    /\ Present("live") /\ Present("pitr") /\ Present("range")

\* The index of the one occurrence of the piece a in out.
IndexOf(a) == CHOOSE i \in Occurrences(a) : TRUE

\* C11: for every InitCommand, the empty one included, String() emits the
\* token username, the Username value, the token password and the Password
\* value, in that order and once each, as bare tokens separated by single
\* spaces and never quoted, even when the values are empty.
C11_CredentialsAlwaysEmitted ==
    Serialized =>
        /\ Cardinality(Occurrences("username")) = 1
        /\ Cardinality(Occurrences("password")) = 1
        /\ LET u    == IndexOf("username")
               text == <<"username">> \o Space \o cmd.Username \o Space
                       \o <<"password">> \o Space \o cmd.Password
               end  == u + Len(text) - 1
           IN  /\ StartsAt(u, text)
               /\ u = 1 \/ out[u - 1] = " "
               /\ end = Len(out) \/ out[end + 1] = " "
               /\ \A j \in Occurrences("\"") : j > end
               /\ (cmd.AirportFilter = <<>> /\ cmd.Events = <<>>
                     /\ cmd.LatLong = <<>>) => end = Len(out)

\* The empty InitCommand was serialized: both tokens stand there with empty
\* values after them.
C11_Witness ==
    /\ Serialized
    /\ cmd = ZeroInitCommand
    /\ out = <<"username", " ", " ", "password", " ">>

(***************************************************************************)
(* Properties of Stream.Init (SpecInit).                                   *)
(***************************************************************************)
\* A step in which an Init call returns.
InitReturns == call'.inits = call.inits + 1

\* C12: Init(command) writes to the connection exactly the command and one
\* newline after it; it returns nil when the connection takes the write,
\* be it the first Init call or a repeated one, and the connection's write
\* error when the write fails (then at most a part of that text has been
\* written); it leaves the decoder, the read deadline and the open or
\* closed state of the connection as they were.
C12_InitWritesCommandLine ==
    [][InitReturns =>
         LET text == call'.initCommand \o <<"\n">>
         IN  /\ decoder' = decoder
             /\ conn'.closed = conn.closed
             /\ conn'.readDeadline = conn.readDeadline
             /\ (~conn.closed /\ ~conn.writeBroken) =>
                    /\ call'.initErr = NoErr
                    /\ conn'.written = conn.written \o text
             /\ conn.closed =>
                    /\ call'.initErr = ErrClosed
                    /\ conn'.written = conn.written
             /\ (~conn.closed /\ conn.writeBroken) =>
                    /\ call'.initErr = ErrBrokenPipe
                    /\ \E n \in 0..(Len(text) - 1) :
                          conn'.written = conn.written \o SubSeq(text, 1, n)]_vars

\* Init was called a second time, with another command, on a Stream whose
\* decoder stood after the first of two buffered values: both command lines
\* are on the connection, one after the other, and the decoder stands
\* where it stood.
C12_Witness ==
    /\ call.inits = 2
    /\ call.initErr = NoErr
    /\ call.initCommand = String(LiveCommand)
    /\ conn.written = <<"username", " ", " ", "password", " ", "\n",
                        "live", " ", "username", " ", "un", " ",
                        "password", " ", "pw", "\n">>
    /\ decoder.buf = 2 /\ decoder.scanp = 1
    /\ ~conn.closed

(***************************************************************************)
(* Further properties of Message.UnmarshalJSON (SpecDecode).               *)
(***************************************************************************)
\* The empty or zero JSON value of the wire type of a field.
EmptyValue(kind) == IF kind = "*int" THEN <<"num", "0">> ELSE JStr("")

\* C13 (as stated): in a decoded position report every field that the
\* object does not have is represented as absent, and the same object with
\* that field present and empty (or zero) decodes to a different payload.
C13_AbsentDistinctFromEmpty ==
    (/\ Decoded
     /\ Has(data, "type") /\ Get(data, "type") = JStr("position")
     /\ uerr = NoErr) =>
        \A k \in DOMAIN PositionMessageKinds \ Keys(data) :
           /\ msg.Payload.val[k] = Nil
           /\ UnmarshalJSON(ZeroMessage,
                   Append(data, <<k, EmptyValue(PositionMessageKinds[k])>>)).m.Payload
                 # msg.Payload

\* C14 (as stated): an object without a usable discriminant (no type
\* member, or a type member that is not a string) fails in the first pass
\* with the could-not-determine-message-type error and produces nothing,
\* and that error is never the unrecognized-type error, which is reported
\* for a discriminant that is present, a string, and not known.
C14_NoDiscriminantIsMalformed ==
    Decoded =>
        /\ ~HasString(data, "type") =>
               /\ uerr[1] = "could not determine message type"
               /\ msg = ZeroMessage
        /\ uerr[1] = "unrecognized message type" =>
               /\ HasString(data, "type")
               /\ Get(data, "type")[2] \notin {"error", "position"}

(***************************************************************************)
(* Further properties of InitCommand.String (SpecCmd).                     *)
(***************************************************************************)
\* The index of the k-th occurrence of the piece a in out.
NthOccurrence(a, k) ==
    CHOOSE i \in Occurrences(a) :
        Cardinality({j \in Occurrences(a) : j < i}) = k - 1

\* A list of one-piece strings with single spaces between its elements.
Spaced(list) ==
    [j \in 1..(2 * Len(list) - 1) |->
        IF j % 2 = 1 THEN list[(j + 1) \div 2][1] ELSE " "]

\* The four numbers of a rectangle in the verb %f, with single spaces
\* between them.
RectText(rect) ==
    FormatF(rect.LowLat) \o Space \o FormatF(rect.LowLon) \o Space
    \o FormatF(rect.HiLat) \o Space \o FormatF(rect.HiLon)

\* out has the text s at index i and, after it, ends or goes on with a space.
TokenAt(i, s) ==
    /\ StartsAt(i, s)
    /\ i + Len(s) - 1 = Len(out) \/ out[i + Len(s)] = " "

\* C15: String() emits as many latlong tokens as LatLong has rectangles,
\* none for an empty list, the k-th followed by the k-th rectangle alone in
\* its own pair of quotes; all globs stand space-joined in one pair of
\* quotes after a single airport_filter, all events likewise after a single
\* events.
C15_OneLatLongPerRectangle ==
    Serialized =>
        /\ Cardinality(Occurrences("latlong")) = Len(cmd.LatLong)
        /\ \A k \in 1..Len(cmd.LatLong) :
              TokenAt(NthOccurrence("latlong", k),
                      <<"latlong">> \o Space \o Quote
                      \o RectText(cmd.LatLong[k]) \o Quote)
        /\ Cardinality(Occurrences("airport_filter"))
              = (IF Len(cmd.AirportFilter) > 0 THEN 1 ELSE 0)
        /\ Len(cmd.AirportFilter) > 0 =>
              TokenAt(IndexOf("airport_filter"),
                      <<"airport_filter">> \o Space \o Quote
                      \o Spaced(cmd.AirportFilter) \o Quote)
        /\ Cardinality(Occurrences("events"))
              = (IF Len(cmd.Events) > 0 THEN 1 ELSE 0)
        /\ Len(cmd.Events) > 0 =>
              TokenAt(IndexOf("events"),
                      <<"events">> \o Space \o Quote
                      \o Spaced(cmd.Events) \o Quote)
        /\ Cardinality(Occurrences("\""))
              = 2 * (Len(cmd.LatLong) + (IF Len(cmd.AirportFilter) > 0 THEN 1 ELSE 0)
                                     + (IF Len(cmd.Events) > 0 THEN 1 ELSE 0))

\* Two different rectangles, two globs and two events were serialized: two
\* latlong tokens, one airport_filter and one events.
C15_Witness ==
    /\ Serialized
    /\ Len(cmd.LatLong) = 2 /\ cmd.LatLong[1] # cmd.LatLong[2]
    /\ Len(cmd.AirportFilter) = 2 /\ Len(cmd.Events) = 2
    /\ Cardinality(Occurrences("latlong")) = 2
    /\ Cardinality(Occurrences("airport_filter")) = 1
    /\ Cardinality(Occurrences("events")) = 1

(***************************************************************************)
(* Further properties of Stream.NextMessage (Spec).                        *)
(***************************************************************************)
\* The goroutines that are inside Decoder.Decode, in conn.Read.
Reading == {i \in 1..Len(gor) : gor[i].pc = "read"}

\* C16 (as stated): with one consumer calling the operations one after
\* another, at most one goroutine at a time is reading from the connection
\* through the Stream's decoder; the goroutine of a call that returned
\* through the cancellation branch is not inside Decode any more when a
\* later call's goroutine is.
C16_AtMostOneReader ==
    Cardinality(Reading) <= 1

\* The call that started goroutine i has returned.
Returned(i) == i < Len(gor) \/ (i = Len(gor) /\ pc = "idle")

\* Goroutine i has finished.
Finished(i) == i <= Len(gor) /\ gor[i].pc = "done"

\* C17 (as stated): every decode goroutine terminates; once the call that
\* started it has returned, through either branch of the select, the
\* goroutine eventually finishes and does not stay blocked.
C17_EveryGoroutineTerminates ==
    \A i \in 1..MaxCalls : [](Returned(i) => <>Finished(i))

\* C18: a NextMessage call whose context has a deadline runs its decode
\* goroutine with that deadline set as the read deadline of the connection;
\* when the deadline cannot be set the call returns that error wrapped,
\* starts no goroutine and consumes no input; and such a call always
\* returns, even when nothing arrives and nobody cancels.
C18_DeadlineBoundsTheCall ==
    /\ [](( pc = "select" /\ ctx.kind = "deadline") =>
             /\ conn.readDeadline \in {"future", "past"}
             /\ ctx.err = "DeadlineExceeded" => conn.readDeadline = "past"
             /\ (conn.readDeadline = "past" /\ ~conn.closed) =>
                   gor[Cur].pc # "read" \/ ENABLED GoReadFails(Cur))
    /\ [][(Returns /\ Last(log').branch = "deadline") =>
             /\ pc = "idle" /\ pc' = "idle"
             /\ conn.closed
             /\ gor' = gor
             /\ decoder' = decoder
             /\ Last(log').isNil
             /\ Last(log').err = <<"could not set read deadline", ErrClosed[1]>>]_vars
    /\ (pc = "select" /\ ctx.kind = "deadline") ~> (pc = "idle")

\* A call with a deadline was made on an open connection on which nothing
\* ever arrived, nobody cancelled, and the call returned when the deadline
\* passed.
C18_Witness ==
    /\ pc = "idle"
    /\ Len(log) = 1
    /\ ~call.closedAtStart /\ ~call.expiredAtStart
    /\ decoder.buf = 0
    /\ log[1].branch = "decode"
    /\ log[1].err = ErrTimeout

\* C19: when the select takes case err := <-errc, NextMessage returns what
\* the goroutine's Decode produced and leaves the connection as it was,
\* open or closed; with the return the goroutine of the call has handed its
\* result over and is gone.  A step of NextMessage closes the connection
\* only when it returns through the cancellation branch.
C19_DecodeBranchLeavesTransport ==
    [][/\ (Returns /\ Last(log').branch = "decode") =>
            /\ pc = "select" /\ pc' = "idle"
            /\ gor[Cur].pc = "send"
            /\ Last(log').m = gor[Cur].m /\ Last(log').err = gor[Cur].err
            /\ conn' = conn
            /\ decoder' = decoder
            /\ Len(gor') = Len(gor)
            /\ gor'[Cur].pc = "done"
            /\ \A i \in 1..(Cur - 1) : gor'[i] = gor[i]
       /\ (conn'.closed /\ ~conn.closed /\ (pc = "select" \/ Returns)) =>
            (Returns /\ Last(log').branch = "cancel")]_vars

\* The decode finished first on a call whose context was not done when it
\* was made: the first message was returned, the connection is still open
\* and the goroutine is gone.
C19_Witness ==
    /\ pc = "idle"
    /\ Len(log) = 1
    /\ log[1].branch = "decode"
    /\ log[1].err = NoErr /\ log[1].idx = 1
    /\ ~conn.closed
    /\ gor[1].pc = "done"
    /\ ~call.expiredAtStart

\* C20 (as stated): no error is swallowed.  A write that fails is returned
\* by Init; a read deadline that cannot be set is returned by NextMessage;
\* a read or a decode that fails is returned by the call that returns its
\* goroutine's result; a close that fails is returned by the call that
\* closed, on the cancellation branch as well; and a goroutine whose read
\* has failed does not read again.
C20_NoErrorSwallowed ==
    /\ call.initClosed => call.initErr = ErrClosed
    /\ \A i \in 1..Len(log) :
          /\ log[i].branch = "deadline" =>
                log[i].err = <<"could not set read deadline", ErrClosed[1]>>
          /\ (log[i].branch = "decode" /\ log[i].idx = 0) =>
                log[i].err \in TransportErrors
          /\ (log[i].branch = "decode" /\ log[i].idx > 0) =>
                log[i].err = UnmarshalJSON(ZeroMessage, wire[log[i].idx]).err
          /\ log[i].closeErr # NoErr =>
                log[i].err \in {log[i].closeErr, <<"close", log[i].closeErr[1]>>}
    /\ \A i \in 1..Len(gor) :
          gor[i].err \in TransportErrors => gor[i].pc \in {"send", "done"}

\* The payload variant that a discriminant selects.
VariantOf(t) == IF t = "error" THEN "ErrorMessage" ELSE "PositionMessage"

\* The fields of a payload variant.
FieldsOf(variant) ==
    IF variant = "ErrorMessage" THEN DOMAIN ErrorMessageKinds
    ELSE DOMAIN PositionMessageKinds

\* C21: a Message that a decode produced without error has Type "error" or
\* "position"; its Payload holds one variant, the one Type selects
\* (ErrorMessage for "error", PositionMessage for "position"), with the
\* fields of that variant and no others, and the variant's own Type equals
\* Message.Type; the Payload is never empty and never of the other kind.
C21_SuccessfulMessageWellFormed ==
    (Decoded /\ uerr = NoErr) =>
        /\ msg.Type \in {"error", "position"}
        /\ msg.Payload # NilPayload
        /\ msg.Payload.variant = VariantOf(msg.Type)
        /\ DOMAIN msg.Payload.val = FieldsOf(VariantOf(msg.Type))
        /\ msg.Payload.val["type"] = Val(msg.Type)
        /\ HasString(data, "type") /\ Get(data, "type")[2] = msg.Type

\* A position report with an altitude, its type member first, was decoded
\* without error into a PositionMessage.
C21_Witness ==
    /\ Decoded /\ uerr = NoErr
    /\ Len(data) = 3
    /\ data[1] = <<"type", JStr("position")>>
    /\ Has(data, "alt") /\ Get(data, "alt") = JStr("1550")
    /\ msg.Type = "position"
    /\ msg.Payload.variant = "PositionMessage"
    /\ msg.Payload.val["alt"] = Ptr("1550")

\* A step in which a NextMessage call passes its deadline check and starts
\* its goroutine.
Starts == pc = "idle" /\ pc' = "select"

\* C22: NextMessage only sets the read deadline of the connection and
\* never clears it.  A call whose context has a deadline makes it the read
\* deadline; a call whose context has none, a return through either branch
\* of the select, Init and Close leave the read deadline as it is; so the
\* connection carries the deadline of the latest call that set one, which
\* changes only by passing, and a call without a deadline reads under it.
C22_ReadDeadlineNeverCleared ==
    [][/\ conn.readDeadline # "none" => conn'.readDeadline # "none"
       /\ (Starts /\ ctx'.kind = "deadline") =>
             conn'.readDeadline =
                (IF ctx'.err = "DeadlineExceeded" THEN "past" ELSE "future")
       /\ (Starts /\ ctx'.kind # "deadline") =>
             conn'.readDeadline = conn.readDeadline
       /\ Returns => conn'.readDeadline = conn.readDeadline
       /\ conn'.readDeadline # conn.readDeadline =>
             \/ Starts /\ ctx'.kind = "deadline"
             \/ /\ conn.readDeadline = "future" /\ conn'.readDeadline = "past"
                /\ pc' = pc /\ log' = log /\ gor' = gor]_vars

\* A call with a deadline returned a message and left the connection open;
\* its deadline passed; the next call, made with context.Background(), has
\* its read fail with a timeout.
C22_Witness ==
    /\ pc = "select"
    /\ ctx.kind = "background"
    /\ ~conn.closed
    /\ conn.readDeadline = "past"
    /\ Len(log) = 1 /\ log[1].branch = "decode" /\ log[1].err = NoErr
    /\ gor[Cur].pc = "send"
    /\ gor[Cur].err = ErrTimeout

\* C23: a NextMessage call that returns through case err := <-errc returns
\* a non-nil message, also with a non-nil error: the message is then zero
\* (the read failed) or partly filled (Type is the unrecognized
\* discriminant and the payload is empty).  The message is nil exactly on
\* the cancellation branch and when the read deadline could not be set,
\* both with a non-nil error; so a nil error implies a non-nil message.
C23_DecodeBranchMessageNonNil ==
    \A i \in 1..Len(log) :
        /\ log[i].isNil <=> log[i].branch \in {"cancel", "deadline"}
        /\ log[i].branch = "decode" => ~log[i].isNil
        /\ log[i].isNil => (log[i].err # NoErr /\ log[i].m = ZeroMessage)
        /\ log[i].err = NoErr => ~log[i].isNil
        /\ (log[i].branch = "decode" /\ log[i].err \in TransportErrors) =>
              log[i].m = ZeroMessage
        /\ (log[i].branch = "decode"
              /\ log[i].err[1] = "unrecognized message type") =>
              /\ log[i].m.Type = log[i].err[2]
              /\ log[i].m.Payload = NilPayload

\* One call returned a non-nil message with Type "flightplan" together
\* with the unrecognized-type error, and another returned a non-nil zero
\* message together with a read error.
C23_Witness ==
    /\ Len(log) = 2
    /\ log[1].branch = "decode" /\ ~log[1].isNil
    /\ log[1].err = <<"unrecognized message type", "flightplan">>
    /\ log[1].m.Type = "flightplan"
    /\ log[2].branch = "decode" /\ ~log[2].isNil
    /\ log[2].err \in TransportErrors
    /\ log[2].m = ZeroMessage

=============================================================================
